---------------------------- MODULE Spec2Model ----------------------------
(***************************************************************************)
(* Seats at the Table - Decision Journey Mapper (src/unnamed/part_005).    *)
(*                                                                         *)
(* Representation.                                                         *)
(*  - Real numbers are held exactly, as integer multiples of 1/One: the    *)
(*    integer v stands for the real v/One.  All the literals of the source *)
(*    (0.1, 0.15, ... 0.9, 0.75) are multiples of 1/20, so One = 20.       *)
(*    Canvas lengths (pixels) use the same scale.  Inputs (slider values,  *)
(*    pointer positions) are drawn from values this grid represents        *)
(*    exactly, or that the clamp maps onto it; IEEE rounding is not        *)
(*    modelled.                                                            *)
(*  - Math.sqrt(q) is held as its radicand; products (1 - sqrt q) * f are  *)
(*    held symbolically and ordered exactly (CmpScore).                    *)
(*  - JavaScript strings are TLA+ strings; a character is a string of      *)
(*    length 1.  TLA+ strings are ASCII: the glyph U+2022 is written "@",  *)
(*    U+00B7 is written "^" and U+2194 is written "~".                     *)
(*  - Arrays are sequences, so dims[0] of the source is dims[1] here and   *)
(*    a polygon vertex index i of the source is i + 1 here.                *)
(*  - null and undefined are both written NoId (ids) or NoIdx (indexes).   *)
(*  - React re-renders after every event, so a handler (a closure over     *)
(*    the last render) reads the current state: one action per handler.    *)
(***************************************************************************)
EXTENDS Integers, Sequences, FiniteSets, TLC

\* ------------------------------------------------------------------ numbers

\* The fixed-point denominator: 1.0.
One == 4 * 5

\* The decimal literal 0.<hundredths> of the source.
Dec(hundredths) == (hundredths * One) \div 100

Half == Dec(50)

Max(a, b) == IF a >= b THEN a ELSE b

Min(a, b) == IF a <= b THEN a ELSE b

Sign(x) == IF x > 0 THEN 1 ELSE IF x < 0 THEN -1 ELSE 0

RECURSIVE GCD(_, _)
GCD(a, b) == IF b = 0 THEN a ELSE GCD(b, a % b)

\* const clamp01 = (x) => Math.max(0, Math.min(1, x))
clamp01(x) == Max(0, Min(One, x))

\* The sign of sqrt(a) + sqrt(b) - sqrt(c), for naturals a, b, c, exactly:
\* with R = c - a - b it is the sign of 2 sqrt(ab) - R, and 2 sqrt(ab) <= a + b.
SignRootSum(a, b, c) ==
    LET R == c - a - b
    IN  IF R < 0 THEN 1
        ELSE IF R > a + b THEN -1
        ELSE Sign(4 * a * b - R * R)

\* ------------------------------------------------------------------ strings

Char(s, i) == SubSeq(s, i, i)

IsSpace(c) == c \in {" ", "\n", "\t", "\r"}

UpperLetters == "ABCDEFGHIJKLMNOPQRSTUVWXYZ"

LowerLetters == "abcdefghijklmnopqrstuvwxyz"

LowerChar(c) ==
    IF \E i \in 1..Len(UpperLetters) : Char(UpperLetters, i) = c
    THEN Char(LowerLetters, CHOOSE i \in 1..Len(UpperLetters) : Char(UpperLetters, i) = c)
    ELSE c

\* String.prototype.toLowerCase
RECURSIVE toLowerCase(_)
toLowerCase(s) ==
    IF s = "" THEN "" ELSE LowerChar(Char(s, 1)) \o toLowerCase(SubSeq(s, 2, Len(s)))

\* String.prototype.trim
trim(s) ==
    LET keep == {i \in 1..Len(s) : ~IsSpace(Char(s, i))}
    IN  IF keep = {} THEN ""
        ELSE SubSeq(s, CHOOSE i \in keep : \A j \in keep : i <= j,
                       CHOOSE i \in keep : \A j \in keep : i >= j)

\* String.prototype.indexOf, 0-based, -1 when absent.
indexOf(s, pat) ==
    LET hits == {i \in 0..(Len(s) - Len(pat)) : SubSeq(s, i + 1, i + Len(pat)) = pat}
    IN  IF hits = {} THEN -1 ELSE CHOOSE i \in hits : \A j \in hits : i <= j

\* String.prototype.includes
includes(s, pat) == indexOf(s, pat) >= 0

\* String.prototype.slice(from) and slice(from, to), 0-based, to exclusive.
sliceFrom(s, from) == SubSeq(s, from + 1, Len(s))

slice(s, from, to) == SubSeq(s, from + 1, to)

\* String.prototype.split on a one-character separator.
RECURSIVE split(_, _)
split(s, sep) ==
    LET i == indexOf(s, sep)
    IN  IF i < 0 THEN <<s>>
        ELSE <<slice(s, 0, i)>> \o split(sliceFrom(s, i + 1), sep)

\* String.prototype.replaceAll with a one-character pattern.
RECURSIVE replaceAll(_, _, _)
replaceAll(s, pat, by) ==
    IF s = "" THEN ""
    ELSE (IF Char(s, 1) = pat THEN by ELSE Char(s, 1)) \o replaceAll(sliceFrom(s, 1), pat, by)

\* The glyphs of the source that TLA+ strings cannot hold.
Bullet == "@"

MidDot == "^"

Arrow == "~"

\* ------------------------------------------------------------------ sequences

RECURSIVE Concat(_)
Concat(xss) == IF xss = <<>> THEN <<>> ELSE Head(xss) \o Concat(Tail(xss))

Take(xs, n) == SubSeq(xs, 1, Min(n, Len(xs)))


\* ------------------------------------------------------------------ utils

\* null / undefined where an id is expected.
NoId == 0

\* null where a polygon vertex index is expected.
NoIdx == 0

\* The ids uid() can return.  The ids are random strings; they are modelled as
\* numbers, and a call returns an id that nothing of the program holds.
UidSpace == 1..40

\* const uid = () => Math.random().toString(36).slice(2, 9): the n-th of n
\* successive calls, none of which returns an id of `used`.
RECURSIVE uid(_, _)
uid(used, n) ==
    LET first == CHOOSE i \in UidSpace \ used : \A j \in UidSpace \ used : i <= j
    IN  IF n = 1 THEN first ELSE uid(used \cup {first}, n - 1)

\* Does the edge poly[i] -> poly[j] toggle `inside` for the point p?
\*   yi > p.y !== yj > p.y && p.x < ((xj - xi) * (p.y - yi)) / (yj - yi + 1e-9) + xi
\* On the 1/One grid the 1e-9 of the divisor acts as an infinitesimal: it
\* decides the comparison only when p lies exactly on the edge's line, where
\* the quotient A / (D + 1e-9) is below A / D when A > 0 and above it when A < 0.
hit(p, vi, vj) ==
    LET D == vj.y - vi.y
        A == (vj.x - vi.x) * (p.y - vi.y)
        L == p.x - vi.x
    IN  /\ (vi.y > p.y) # (vj.y > p.y)
        /\ \/ (D > 0 /\ L * D < A)
           \/ (D < 0 /\ L * D > A)
           \/ (L * D = A /\ A < 0)

\* Ray casting point-in-polygon.
pointInPolygon(p, poly) ==
    LET n == Len(poly)
        hits == {i \in 1..n : hit(p, poly[i], poly[IF i = 1 THEN n ELSE i - 1])}
    IN  Cardinality(hits) % 2 = 1

makeDefaultPoly ==
    << [x |-> Dec(25), y |-> Dec(15)],
       [x |-> Dec(85), y |-> Dec(25)],
       [x |-> Dec(75), y |-> Dec(80)],
       [x |-> Dec(35), y |-> Dec(90)],
       [x |-> Dec(20), y |-> Dec(55)] >>

\* ------------------------------------------------------------------ NLP-lite intake

normalizeText(raw) ==
    trim(replaceAll(replaceAll(replaceAll(raw, Bullet, "\n"), MidDot, "\n"), "\r", ""))

\* The chunks of one line / one semicolon part / one comma part, trimmed, non-empty.
ChunkOf(chunk) == IF trim(chunk) # "" THEN <<trim(chunk)>> ELSE <<>>

ChunksOfSemi(semi) ==
    LET parts == split(semi, ",") IN Concat([i \in 1..Len(parts) |-> ChunkOf(parts[i])])

ChunksOfLine(line) ==
    LET semis == split(line, ";") IN Concat([i \in 1..Len(semis) |-> ChunksOfSemi(semis[i])])

\* DeDupe that compares the phrases as written, case included.
RECURSIVE DeDupeCaseSensitive(_, _)
DeDupeCaseSensitive(parts, seen) ==
    IF parts = <<>> THEN <<>>
    ELSE LET k == Head(parts)
         IN  IF k \in seen THEN DeDupeCaseSensitive(Tail(parts), seen)
             ELSE <<Head(parts)>> \o DeDupeCaseSensitive(Tail(parts), seen \cup {k})

\* de-dupe case-insensitively, keeping the first occurrence
RECURSIVE DeDupe(_, _)
DeDupe(parts, seen) ==
    IF parts = <<>> THEN <<>>
    ELSE LET k == toLowerCase(Head(parts))
         IN  IF k \in seen THEN DeDupe(Tail(parts), seen)
             ELSE <<Head(parts)>> \o DeDupe(Tail(parts), seen \cup {k})

splitCandidates(raw) ==
    LET t == normalizeText(raw)
    IN  IF t = "" THEN <<>>
        ELSE DeDupe(Concat([i \in 1..Len(split(t, "\n")) |-> ChunksOfLine(split(t, "\n")[i])]), {})

Axis(name, left, right) == [name |-> name, left |-> left, right |-> right]

\* very light keyword mapping; the last line is the fallback
KeywordAxis(s, lower) ==
    IF includes(lower, "money") \/ includes(lower, "salary") \/ includes(lower, "pay")
      THEN Axis("Money", "Lower", "Higher")
    ELSE IF \/ includes(lower, "time") \/ includes(lower, "balance")
            \/ includes(lower, "burnout") \/ includes(lower, "life")
      THEN Axis("Work-life", "All work", "All life")
    ELSE IF includes(lower, "growth") \/ includes(lower, "learning") \/ includes(lower, "skills")
      THEN Axis("Growth", "Stable", "Expansive")
    ELSE IF includes(lower, "meaning") \/ includes(lower, "purpose") \/ includes(lower, "impact")
      THEN Axis("Meaning", "Instrumental", "Purposeful")
    ELSE IF includes(lower, "risk") \/ includes(lower, "security") \/ includes(lower, "stability")
      THEN Axis("Risk", "Safer", "Riskier")
    ELSE Axis(IF s # "" THEN s ELSE "Dimension", "Lower", "Higher")

\* inferAxis that tries the "/" rule before the " vs " rule.
inferAxisSlashFirst(text) ==
    LET s == trim(text)
        lower == toLowerCase(s)
        vs == indexOf(lower, " vs ")
        va == trim(slice(s, 0, vs))
        vb == trim(sliceFrom(s, vs + 4))
        slash == indexOf(s, "/")
        sa == trim(slice(s, 0, slash))
        sb == trim(sliceFrom(s, slash + 1))
    IN  IF slash > 0 /\ sa # "" /\ sb # ""
          THEN Axis(sa \o " " \o Arrow \o " " \o sb, sa, sb)
        ELSE IF vs > 0 /\ va # "" /\ vb # ""
          THEN Axis(va \o " " \o Arrow \o " " \o vb, va, vb)
        ELSE KeywordAxis(s, lower)

inferAxis(text) ==
    LET s == trim(text)
        lower == toLowerCase(s)
        vs == indexOf(lower, " vs ")
        va == trim(slice(s, 0, vs))
        vb == trim(sliceFrom(s, vs + 4))
        slash == indexOf(s, "/")
        sa == trim(slice(s, 0, slash))
        sb == trim(sliceFrom(s, slash + 1))
    IN  IF vs > 0 /\ va # "" /\ vb # ""
          THEN Axis(va \o " " \o Arrow \o " " \o vb, va, vb)
        ELSE IF slash > 0 /\ sa # "" /\ sb # ""
          THEN Axis(sa \o " " \o Arrow \o " " \o sb, sa, sb)
        ELSE KeywordAxis(s, lower)

\* ------------------------------------------------------------------ types + defaults

Dim(id, name, leftLabel, rightLabel, preference) ==
    [id |-> id, name |-> name, leftLabel |-> leftLabel, rightLabel |-> rightLabel,
     preference |-> preference]

Opt(id, name, notes, scores) ==
    [id |-> id, name |-> name, notes |-> notes, scores |-> scores]

\* An empty Record<string, number>.
EmptyScores == [k \in {} |-> 0]

DigitOf(n) == Char("0123456789", n + 1)

\* The padding of the while loop: `Dimension ${dims.length + 1}` until two exist.
RECURSIVE PadDims(_, _)
PadDims(dims, used) ==
    IF Len(dims) >= 2 THEN dims
    ELSE PadDims(Append(dims, Dim(uid(used, 1), "Dimension " \o DigitOf(Len(dims) + 1),
                                  "Lower", "Higher", Half)),
                 used \cup {uid(used, 1)})

\* buildDimensionsFromConsiderations without the cap on the candidates.
buildDimensionsUncapped(raw, max, used) ==
    LET parts == splitCandidates(raw)
        dims == [i \in 1..Len(parts) |->
                   LET a == inferAxis(parts[i])
                   IN  Dim(uid(used, i), a.name, a.left, a.right, Half)]
    IN  IF Len(parts) = 0 THEN <<>>
        ELSE PadDims(dims, used \cup {dims[i].id : i \in 1..Len(dims)})

\* null (no candidate) is the empty sequence: a built array is never empty.
buildDimensionsFromConsiderations(raw, max, used) ==
    LET parts == Take(splitCandidates(raw), max)
        dims == [i \in 1..Len(parts) |->
                   LET a == inferAxis(parts[i])
                   IN  Dim(uid(used, i), a.name, a.left, a.right, Half)]
    IN  IF Len(parts) = 0 THEN <<>>
        ELSE PadDims(dims, used \cup {dims[i].id : i \in 1..Len(dims)})

\* The default of the parameter max of buildDimensionsFromConsiderations.
MaxDims == 8

DEFAULT_DIMS ==
    << Dim(1, "Work-life", "All work", "All life", Dec(65)),
       Dim(2, "Money", "Lower", "Higher", Dec(70)),
       Dim(3, "Growth", "Stable", "Expansive", Dec(60)),
       Dim(4, "Meaning", "Instrumental", "Purposeful", Dec(70)) >>

DEFAULT_OPTIONS ==
    << Opt(5, "", "", EmptyScores),
       Opt(6, "", "", EmptyScores),
       Opt(7, "", "", EmptyScores) >>

\* The ids the module-level constants hold.
DefaultIds == {DEFAULT_DIMS[i].id : i \in 1..Len(DEFAULT_DIMS)}
                \cup {DEFAULT_OPTIONS[i].id : i \in 1..Len(DEFAULT_OPTIONS)}

\* dims[idx]?.preference ?? 0.5, idx 1-based
PrefAt(dims, idx) == IF idx <= Len(dims) THEN dims[idx].preference ELSE Half

\* Outside with the comparison p <= 0.5.
OutsideAtHalf(p) == IF p <= Half THEN Dec(90) ELSE Dec(10)

\* p < 0.5 ? 0.9 : 0.1
Outside(p) == IF p < Half THEN Dec(90) ELSE Dec(10)

\* Object.fromEntries(dims.map((d, idx) => [d.id, idx === 0 ? outside0 : idx === 1 ? outside1 : 0.5]))
AwayScores(dims) ==
    [id \in {dims[i].id : i \in 1..Len(dims)} |->
        LET idx == CHOOSE i \in 1..Len(dims) :
                      /\ dims[i].id = id
                      /\ \A j \in 1..Len(dims) : dims[j].id = id => j <= i
        IN  IF idx = 1 THEN Outside(PrefAt(dims, 1))
            ELSE IF idx = 2 THEN Outside(PrefAt(dims, 2))
            ELSE Half]

\* initOptions that returns the templates as they are, without coordinates.
initOptionsNoScores(dims) == DEFAULT_OPTIONS

initOptions(dims) ==
    [i \in 1..Len(DEFAULT_OPTIONS) |->
        [DEFAULT_OPTIONS[i] EXCEPT !.scores = AwayScores(dims)]]

\* ------------------------------------------------------------------ scoring

\* record[key] ?? 0.5
Get(scores, id) == IF id \in DOMAIN scores THEN scores[id] ELSE Half

RECURSIVE SumSq(_, _)
SumSq(coords, prefs) ==
    IF coords = <<>> THEN 0
    ELSE (Head(coords) - Head(prefs)) * (Head(coords) - Head(prefs))
           + SumSq(Tail(coords), Tail(prefs))

\* Math.sqrt(sum / cnt), held as its radicand: sum is in units of 1/One^2.
Sqrt(sum, cnt) == [rad |-> sum, cnt |-> cnt]

\* Is the root below 1?  Is it 1?
RootBelowOne(r) == r.rad < r.cnt * One * One

RootIsOne(r) == r.rad = r.cnt * One * One

\* scoreOf without the penalty for lying outside the region.
scoreOfNoPenalty(dist, inside) == [mult |-> One, dist |-> dist]

\* const score = (1 - dist) * (inside ? 1 : 0.75), held as its two factors.
scoreOf(dist, inside) == [mult |-> IF inside THEN One ELSE Dec(75), dist |-> dist]

\* The sign of a - b for two scores: of
\*   (fa - fb) * One * sqrt(L) + fb * sqrt(Rb) - fa * sqrt(Ra)
\* where L is the common denominator of the two radicands.
CmpScore(a, b) ==
    LET g  == GCD(a.mult, b.mult)
        fa == IF g = 0 THEN 0 ELSE a.mult \div g
        fb == IF g = 0 THEN 0 ELSE b.mult \div g
        L  == (a.dist.cnt * b.dist.cnt) \div GCD(a.dist.cnt, b.dist.cnt)
        Ra == a.dist.rad * (L \div a.dist.cnt)
        Rb == b.dist.rad * (L \div b.dist.cnt)
    IN  IF fa >= fb
        THEN SignRootSum((fa - fb) * (fa - fb) * One * One * L, fb * fb * Rb, fa * fa * Ra)
        ELSE 0 - SignRootSum((fb - fa) * (fb - fa) * One * One * L, fa * fa * Ra, fb * fb * Rb)

\* StatusOf that takes y from the last dimension instead of the second.
StatusOfLastDim(o, ds, pl) ==
    LET pref(id) == ds[CHOOSE i \in 1..Len(ds) :
                          /\ ds[i].id = id
                          /\ \A j \in 1..Len(ds) : ds[j].id = id => j <= i].preference
        coords == [i \in 1..Len(ds) |-> Get(o.scores, ds[i].id)]
        prefs  == [i \in 1..Len(ds) |-> pref(ds[i].id)]
        dist   == Sqrt(SumSq(coords, prefs), Max(1, Len(coords)))
        x      == IF Len(coords) >= 1 THEN coords[1] ELSE Half
        y      == IF Len(coords) >= 2 THEN coords[Len(coords)] ELSE Half
        inside == IF Len(pl) >= 3 THEN pointInPolygon([x |-> x, y |-> y], pl) ELSE TRUE
    IN  [dist |-> dist, inside |-> inside, score |-> scoreOf(dist, inside)]

\* The body of the loop of statusById for one option.
StatusOf(o, ds, pl) ==
    LET pref(id) == ds[CHOOSE i \in 1..Len(ds) :
                          /\ ds[i].id = id
                          /\ \A j \in 1..Len(ds) : ds[j].id = id => j <= i].preference
        coords == [i \in 1..Len(ds) |-> Get(o.scores, ds[i].id)]
        prefs  == [i \in 1..Len(ds) |-> pref(ds[i].id)]
        dist   == Sqrt(SumSq(coords, prefs), Max(1, Len(coords)))
        x      == IF Len(coords) >= 1 THEN coords[1] ELSE Half
        y      == IF Len(coords) >= 2 THEN coords[2] ELSE Half
        inside == IF Len(pl) >= 3 THEN pointInPolygon([x |-> x, y |-> y], pl) ELSE TRUE
    IN  [dist |-> dist, inside |-> inside, score |-> scoreOf(dist, inside)]

\* option scoring: distance-to-preference + polygon inclusion (2D); the record
\* is keyed by option id, a later option of the same id overwriting an earlier.
statusById(ds, os, pl) ==
    [id \in {os[i].id : i \in 1..Len(os)} |->
        StatusOf(os[CHOOSE i \in 1..Len(os) :
                       /\ os[i].id = id
                       /\ \A j \in 1..Len(os) : os[j].id = id => j <= i], ds, pl)]

\* InsertSorted of an unstable sort: x goes before the entries of equal score.
RECURSIVE InsertSortedUnstable(_, _)
InsertSortedUnstable(sorted, x) ==
    IF sorted = <<>> THEN <<x>>
    ELSE IF CmpScore(x.s.score, Head(sorted).s.score) >= 0
         THEN <<x>> \o sorted
         ELSE <<Head(sorted)>> \o InsertSortedUnstable(Tail(sorted), x)

\* Array.prototype.sort is stable: insert x after the entries that do not sort
\* after it, with the comparator (a, b) => b.s.score - a.s.score.
RECURSIVE InsertSorted(_, _)
InsertSorted(sorted, x) ==
    IF sorted = <<>> THEN <<x>>
    ELSE IF CmpScore(x.s.score, Head(sorted).s.score) > 0
         THEN <<x>> \o sorted
         ELSE <<Head(sorted)>> \o InsertSorted(Tail(sorted), x)

RECURSIVE SortByScore(_)
SortByScore(xs) ==
    IF xs = <<>> THEN <<>>
    ELSE InsertSorted(SortByScore(SubSeq(xs, 1, Len(xs) - 1)), xs[Len(xs)])

\* The number of entries top3 keeps.
TopN == 3

top3(os, status) ==
    Take(SortByScore([i \in 1..Len(os) |-> [o |-> os[i], s |-> status[os[i].id]]]), TopN)

\* ------------------------------------------------------------------ SVG layout

size == 420

pad == 26

inner == size - pad * 2

\* Canvas coordinates are pixels in units of 1/One.
toSvg(p) == [x |-> pad * One + p.x * inner, y |-> pad * One + (One - p.y) * inner]

\* fromSvg without the clamp.
fromSvgNoClamp(p) ==
    [x |-> (p.x - pad * One) \div inner, y |-> One - ((p.y - pad * One) \div inner)]

\* fromSvg without the flip of the Y axis.
fromSvgNoFlip(p) ==
    [x |-> clamp01((p.x - pad * One) \div inner), y |-> clamp01((p.y - pad * One) \div inner)]

fromSvg(p) ==
    [x |-> clamp01((p.x - pad * One) \div inner),
     y |-> clamp01(One - ((p.y - pad * One) \div inner))]

\* ------------------------------------------------------------------ component state

VARIABLES
    step,               \* "intake" | "visual"
    considerations,     \* the intake text
    dims,               \* Dim[]
    options,            \* Opt[]
    poly,               \* the passable region, {x, y}[]
    selectedOptionId,   \* an option id, or NoId
    dragPolyIdx,        \* a vertex index, or NoIdx
    dragOptionId,       \* an option id, or NoId
    dragModeRef,        \* "none" | "poly" | "option"
    nEvents,            \* the number of events handled so far (bounds the run)
    call,               \* the last direct call of a pure function, and its arguments
    ret                 \* what that call returned

vars == <<step, considerations, dims, options, poly, selectedOptionId,
          dragPolyIdx, dragOptionId, dragModeRef, nEvents, call, ret>>

ui == <<step, considerations, dims, options, poly, selectedOptionId,
        dragPolyIdx, dragOptionId, dragModeRef>>

\* ---- bounds and inputs of the model

\* The events of one run.
MaxEvents == 5

\* The options the list is allowed to grow to.
MaxOptions == 4

\* What the user types into the considerations box.
Texts == {"", " \n", "pay", "a vs b;c/d", "a,b,c,d,e,f,g,h,i"}

\* What the user types into the name box.
Names == {"", " ", "A"}

\* Where the user moves a slider to: 0..100 in steps of 1 in the program.
SliderVals == {0, 100}

\* Pointer positions relative to the canvas, in pixels: left of and below the
\* canvas, the centre, a point of the drawing area, the top right padding.
PointerPx == {<<-10, 430>>, <<210, 210>>, <<302, 302>>, <<400, 10>>}

PointerPos == {[x |-> q[1] * One, y |-> q[2] * One] : q \in PointerPx}

NoCall == [op |-> "none"]

\* ---- what a render derives

isNamed(o) == trim(o.name) # ""

OptionIds == {options[i].id : i \in 1..Len(options)}

\* Every id the program holds: a fresh uid() differs from all of them.
UsedIds ==
    DefaultIds \cup OptionIds \cup {dims[i].id : i \in 1..Len(dims)}
      \cup UNION {DOMAIN options[i].scores : i \in 1..Len(options)}
      \cup ({selectedOptionId, dragOptionId} \ {NoId})

Init ==
    /\ step = "intake"
    /\ considerations = ""
    /\ dims = DEFAULT_DIMS
    /\ options = initOptions(DEFAULT_DIMS)
    /\ poly = makeDefaultPoly
    /\ selectedOptionId = DEFAULT_OPTIONS[1].id
    /\ dragPolyIdx = NoIdx
    /\ dragOptionId = NoId
    /\ dragModeRef = "none"
    /\ nEvents = 0
    /\ call = NoCall
    /\ ret = NoCall

\* One more event handled.
Event ==
    /\ nEvents < MaxEvents
    /\ nEvents' = nEvents + 1
    /\ UNCHANGED <<call, ret>>

\* ---- intake step

\* Textarea onChange
setConsiderations(text) ==
    /\ Event
    /\ step = "intake"
    /\ text # considerations
    /\ considerations' = text
    /\ UNCHANGED <<step, dims, options, poly, selectedOptionId,
                   dragPolyIdx, dragOptionId, dragModeRef>>

startFromIntake ==
    /\ Event
    /\ step = "intake"
    /\ LET built == buildDimensionsFromConsiderations(considerations, MaxDims, UsedIds)
           nextDims == IF built # <<>> THEN built ELSE DEFAULT_DIMS
       IN  /\ dims' = nextDims
           /\ options' = initOptions(nextDims)
    /\ poly' = makeDefaultPoly
    /\ selectedOptionId' = DEFAULT_OPTIONS[1].id
    /\ step' = "visual"
    /\ UNCHANGED <<considerations, dragPolyIdx, dragOptionId, dragModeRef>>

\* ---- visual step: buttons and editors

\* "New intake": setStep("intake")
newIntake ==
    /\ Event
    /\ step = "visual"
    /\ step' = "intake"
    /\ UNCHANGED <<considerations, dims, options, poly, selectedOptionId,
                   dragPolyIdx, dragOptionId, dragModeRef>>

addOption ==
    /\ Event
    /\ step = "visual"
    /\ Len(options) < MaxOptions
    /\ LET o == Opt(uid(UsedIds, 1), "", "", AwayScores(dims))
       IN  /\ options' = Append(options, o)
           /\ selectedOptionId' = o.id
    /\ UNCHANGED <<step, considerations, dims, poly, dragPolyIdx, dragOptionId, dragModeRef>>

\* SelectionAfterRemove that keeps the selection whatever is removed.
SelectionKept(sel, id, next) == sel

\* SelectionAfterRemove that selects none when the selected option is removed.
SelectionCleared(sel, id, next) == IF sel = id THEN NoId ELSE sel

\* if (selectedOptionId === id) setSelectedOptionId(next[0]?.id)
SelectionAfterRemove(sel, id, next) ==
    IF sel = id THEN (IF next # <<>> THEN next[1].id ELSE NoId) ELSE sel

removeOption(id) ==
    /\ Event
    /\ step = "visual"
    /\ id \in OptionIds
    /\ LET keep(o) == o.id # id
           next == SelectSeq(options, keep)
       IN  /\ options' = next
           /\ selectedOptionId' = SelectionAfterRemove(selectedOptionId, id, next)
    /\ UNCHANGED <<step, considerations, dims, poly, dragPolyIdx, dragOptionId, dragModeRef>>

\* the option card's button: setSelectedOptionId(o.id)
selectOption(id) ==
    /\ Event
    /\ step = "visual"
    /\ id \in OptionIds
    /\ id # selectedOptionId
    /\ selectedOptionId' = id
    /\ UNCHANGED <<step, considerations, dims, options, poly,
                   dragPolyIdx, dragOptionId, dragModeRef>>

\* The name box of the selected option's editor.
renameOption(name) ==
    /\ Event
    /\ step = "visual"
    /\ selectedOptionId \in OptionIds
    /\ options' = [i \in 1..Len(options) |->
                     IF options[i].id = selectedOptionId
                     THEN [options[i] EXCEPT !.name = name] ELSE options[i]]
    /\ options' # options
    /\ UNCHANGED <<step, considerations, dims, poly, selectedOptionId,
                   dragPolyIdx, dragOptionId, dragModeRef>>

\* {...scores, [k1]: v1, [k2]: v2}
Spread(scores, k1, v1, k2, v2) ==
    [k \in DOMAIN scores \cup {k1, k2} |->
        IF k = k2 THEN v2 ELSE IF k = k1 THEN v1 ELSE scores[k]]

\* A slider of the selected option's editor, for dimension dims[d].
setOptionScore(d, v) ==
    /\ Event
    /\ step = "visual"
    /\ selectedOptionId \in OptionIds
    /\ d \in 1..Len(dims)
    /\ LET val == (v * One) \div 100
       IN  options' = [i \in 1..Len(options) |->
                         IF options[i].id = selectedOptionId
                         THEN [options[i] EXCEPT !.scores =
                                 Spread(options[i].scores, dims[d].id, val, dims[d].id, val)]
                         ELSE options[i]]
    /\ options' # options
    /\ UNCHANGED <<step, considerations, dims, poly, selectedOptionId,
                   dragPolyIdx, dragOptionId, dragModeRef>>

\* A slider of the Preferences block, for dimension dims[d].
setPreference(d, v) ==
    /\ Event
    /\ step = "visual"
    /\ d \in 1..Len(dims)
    /\ dims' = [i \in 1..Len(dims) |->
                  IF dims[i].id = dims[d].id
                  THEN [dims[i] EXCEPT !.preference = (v * One) \div 100] ELSE dims[i]]
    /\ dims' # dims
    /\ UNCHANGED <<step, considerations, options, poly, selectedOptionId,
                   dragPolyIdx, dragOptionId, dragModeRef>>

\* ---- visual step: the map

\* onMouseDown of an option's circle
optionMouseDown(id) ==
    /\ Event
    /\ step = "visual"
    /\ \E i \in 1..Len(options) :
          /\ options[i].id = id
          /\ selectedOptionId' = id
          /\ IF ~isNamed(options[i])
             THEN UNCHANGED <<dragOptionId, dragModeRef>>
             ELSE /\ dragOptionId' = id
                  /\ dragModeRef' = "option"
    /\ UNCHANGED <<step, considerations, dims, options, poly, dragPolyIdx>>

\* onMouseDown of a polygon handle
handleMouseDown(i) ==
    /\ Event
    /\ step = "visual"
    /\ i \in 1..Len(poly)
    /\ dragPolyIdx' = i
    /\ dragModeRef' = "poly"
    /\ UNCHANGED <<step, considerations, dims, options, poly, selectedOptionId, dragOptionId>>

\* MoveOption writing np.x on every dimension but the second.
MoveOptionAllDims(os, ds, id, np) ==
    IF Len(ds) < 2 THEN os
    ELSE [i \in 1..Len(os) |->
            IF os[i].id = id
            THEN [os[i] EXCEPT !.scores =
                    [k \in DOMAIN os[i].scores \cup {ds[1].id, ds[2].id} |->
                        IF k = ds[2].id THEN np.y ELSE np.x]]
            ELSE os[i]]

\* The option branch of onMouseMove: the dragged option gets np on dims[0], dims[1].
MoveOption(os, ds, id, np) ==
    IF Len(ds) < 2 THEN os
    ELSE [i \in 1..Len(os) |->
            IF os[i].id = id
            THEN [os[i] EXCEPT !.scores = Spread(os[i].scores, ds[1].id, np.x, ds[2].id, np.y)]
            ELSE os[i]]

\* MoveVertex that adds np as a new vertex after vertex idx.
MoveVertexInserted(pl, idx, np) == SubSeq(pl, 1, idx) \o <<np>> \o SubSeq(pl, idx + 1, Len(pl))

\* The polygon branch of onMouseMove: vertex idx becomes np.
MoveVertex(pl, idx, np) == [i \in 1..Len(pl) |-> IF i = idx THEN np ELSE pl[i]]

\* onMouseMove of the svg, the pointer at canvas position pos
svgMouseMove(pos) ==
    /\ Event
    /\ step = "visual"
    /\ LET np == fromSvg(pos)
       IN  IF dragModeRef = "poly" /\ dragPolyIdx # NoIdx
           THEN /\ poly' = MoveVertex(poly, dragPolyIdx, np)
                /\ UNCHANGED options
           ELSE IF dragModeRef = "option" /\ dragOptionId # NoId
           THEN /\ options' = MoveOption(options, dims, dragOptionId, np)
                /\ UNCHANGED poly
           ELSE UNCHANGED <<options, poly>>
    /\ UNCHANGED <<step, considerations, dims, selectedOptionId,
                   dragPolyIdx, dragOptionId, dragModeRef>>

\* Release that forgets to clear the dragged option.
ReleaseKeepsOption ==
    /\ dragModeRef' = "none"
    /\ dragPolyIdx' = NoIdx
    /\ UNCHANGED dragOptionId

\* What onMouseUp and onMouseLeave both do.
Release ==
    /\ dragModeRef' = "none"
    /\ dragPolyIdx' = NoIdx
    /\ dragOptionId' = NoId

svgMouseUp ==
    /\ Event
    /\ step = "visual"
    /\ Release
    /\ UNCHANGED <<step, considerations, dims, options, poly, selectedOptionId>>

svgMouseLeave ==
    /\ Event
    /\ step = "visual"
    /\ Release
    /\ UNCHANGED <<step, considerations, dims, options, poly, selectedOptionId>>

\* ------------------------------------------------------------------ the component

\* Any handler the rendered page offers, on any input of the model.
Next ==
    \/ \E text \in Texts : setConsiderations(text)
    \/ startFromIntake
    \/ newIntake
    \/ addOption
    \/ \E id \in OptionIds : removeOption(id)
    \/ \E id \in OptionIds : selectOption(id)
    \/ \E name \in Names : renameOption(name)
    \/ \E d \in 1..Len(dims), v \in SliderVals : setOptionScore(d, v)
    \/ \E d \in 1..Len(dims), v \in SliderVals : setPreference(d, v)
    \/ \E id \in OptionIds : optionMouseDown(id)
    \/ \E i \in 1..Len(poly) : handleMouseDown(i)
    \/ \E pos \in PointerPos : svgMouseMove(pos)
    \/ svgMouseUp
    \/ svgMouseLeave

Spec == Init /\ [][Next]_vars

\* ------------------------------------------------------------------ direct calls
\* The pure functions, applied to arguments drawn from bounded sets: one call
\* per behaviour, made on the freshly constructed component.

\* The unit square of the model.
UnitPts == {[x |-> a, y |-> b] : a \in 0..One, b \in 0..One}

\* toSvg, then fromSvg of the result.
CallToSvg(p) ==
    /\ call = NoCall
    /\ call' = [op |-> "toSvg", p |-> p]
    /\ ret' = [svg |-> toSvg(p), back |-> fromSvg(toSvg(p))]
    /\ UNCHANGED <<ui, nEvents>>

\* fromSvg, then toSvg of the result.
CallFromSvg(q) ==
    /\ call = NoCall
    /\ call' = [op |-> "fromSvg", p |-> q]
    /\ ret' = [unit |-> fromSvg(q), back |-> toSvg(fromSvg(q))]
    /\ UNCHANGED <<ui, nEvents>>

\* The canvas points of the model: those of the drawing area that the 1/One
\* grid maps exactly, and (clamped) points of the padding and beyond.
CanvasGrid == {toSvg(p) : p \in UnitPts}

CanvasOff ==
    {[x |-> a * One, y |-> b * One] : a \in {-10, 0, pad, size - pad, size, size + 10},
                                      b \in {-10, 0, pad, size - pad, size, size + 10}}

NextCanvas ==
    /\ call = NoCall
    /\ \/ \E p \in UnitPts : CallToSvg(p)
       \/ \E q \in CanvasGrid \cup CanvasOff : CallFromSvg(q)

SpecCanvas == Init /\ [][NextCanvas]_vars

\* ---- scoring

\* The options of one call of statusById.
MaxScoreOptions == 4

ScorePrefs == {0, Half, One}

\* Coordinates on the first two dimensions: the centre, two points at the same
\* distance from it on either side of the default region's edge, three outside.
ScorePts == {<<Half, Half>>, <<Dec(75), Dec(25)>>, <<Dec(25), Dec(75)>>,
             <<0, 0>>, <<One, One>>, <<Half, 0>>}

ScoreDims(p1, p2) == <<Dim(1, "X", "Lower", "Higher", p1), Dim(2, "Y", "Lower", "Higher", p2)>>

ScoreOptions(pts) ==
    [i \in 1..Len(pts) |-> Opt(10 + i, "", "", [k \in {1, 2} |-> pts[i][k]])]

\* statusById with the region pl and with no region, and top3 of the former.
CallStatus(ds, os, pl) ==
    /\ call = NoCall
    /\ call' = [op |-> "statusById", dims |-> ds, options |-> os, poly |-> pl]
    /\ ret' = [status |-> statusById(ds, os, pl),
               open |-> statusById(ds, os, <<>>),
               top3 |-> top3(os, statusById(ds, os, pl))]
    /\ UNCHANGED <<ui, nEvents>>

NextScore ==
    /\ call = NoCall
    /\ \E p1 \in ScorePrefs, p2 \in ScorePrefs, n \in 0..MaxScoreOptions :
          \E pts \in [1..n -> ScorePts] :
              CallStatus(ScoreDims(p1, p2), ScoreOptions(pts), makeDefaultPoly)

SpecScore == Init /\ [][NextScore]_vars

\* ---- inferAxis

\* The pieces phrases are put together from: nothing, a word that is no
\* keyword, and a keyword of each group.
AxisParts == {"", "x", "pay", "life", "growth", "impact", "risk"}

AxisSeps == {"", " ", " vs ", " VS ", "/"}

\* Every keyword of the table, one of them capitalised.
AxisKeywords ==
    {"money", "Salary", "pay", "time", "balance", "burnout", "life", "growth", "learning",
     "skills", "meaning", "purpose", "impact", "risk", "security", "stability"}

\* Phrases with one separator, phrases with both " vs " and "/" in either
\* order, and the single keywords.
AxisPhrases ==
    {a \o sep \o b : a \in AxisParts, sep \in AxisSeps, b \in AxisParts}
      \cup {a \o " vs " \o b \o "/" \o c : a \in {"", "x", "pay"}, b \in {"", "x", "pay"}, c \in {"", "x", "pay"}}
      \cup {a \o "/" \o b \o " vs " \o c : a \in {"", "x", "pay"}, b \in {"", "x", "pay"}, c \in {"", "x", "pay"}}
      \cup AxisKeywords

CallInferAxis(text) ==
    /\ call = NoCall
    /\ call' = [op |-> "inferAxis", text |-> text]
    /\ ret' = inferAxis(text)
    /\ UNCHANGED <<ui, nEvents>>

NextAxis ==
    /\ call = NoCall
    /\ \E text \in AxisPhrases : CallInferAxis(text)

SpecAxis == Init /\ [][NextAxis]_vars

\* ---- splitCandidates

\* The pieces and separators texts are put together from: the same word in
\* both cases, another word, nothing; the line break, the two glyphs read as
\* line breaks, the semicolon, the comma, the carriage return and the space.
SplitPieces == {"a", "A ", "b", ""}

SplitSeps == {"\n", Bullet, MidDot, ";", ",", "\r", " "}

SplitTexts ==
    {p1 \o s1 \o p2 \o s2 \o p3 :
        p1 \in SplitPieces, s1 \in SplitSeps, p2 \in SplitPieces, s2 \in SplitSeps, p3 \in SplitPieces}

CallSplitCandidates(text) ==
    /\ call = NoCall
    /\ call' = [op |-> "splitCandidates", text |-> text]
    /\ ret' = [out |-> splitCandidates(text)]
    /\ UNCHANGED <<ui, nEvents>>

NextSplit ==
    /\ call = NoCall
    /\ \E text \in SplitTexts : CallSplitCandidates(text)

SpecSplit == Init /\ [][NextSplit]_vars

\* ---- pointInPolygon, called with coordinates near the 1e-9 of its divisor

\* The 1e-9 of the divisor, in the unit of these calls: coordinates are
\* integers in units of 1e-9 / EpsUnits, so that a triangle with vertices on
\* multiples of EpsUnits has its centroid on the grid.
EpsUnits == 1 + 2

\* hit with the 1e-9 at its value:
\*   yi > p.y !== yj > p.y && p.x < ((xj - xi) * (p.y - yi)) / (yj - yi + 1e-9) + xi
\* A zero divisor gives +Infinity for a positive dividend (the comparison is
\* true), -Infinity for a negative one and NaN for zero (it is false).
hitNano(p, vi, vj) ==
    LET E == vj.y - vi.y + EpsUnits
        A == (vj.x - vi.x) * (p.y - vi.y)
        L == p.x - vi.x
    IN  /\ (vi.y > p.y) # (vj.y > p.y)
        /\ \/ (E > 0 /\ L * E < A)
           \/ (E < 0 /\ L * E > A)
           \/ (E = 0 /\ A > 0)

\* pointInPolygon on such coordinates.
pointInPolygonNano(p, pl) ==
    LET n == Len(pl)
        hits == {i \in 1..n : hitNano(p, pl[i], pl[IF i = 1 THEN n ELSE i - 1])}
    IN  Cardinality(hits) % 2 = 1

\* The vertices of the triangles of these calls, and the points asked about.
MaxNano == 2

NanoVertices == {[x |-> a * EpsUnits, y |-> b * EpsUnits] : a \in 0..MaxNano, b \in 0..MaxNano}

NanoPoints ==
    {[x |-> a, y |-> b] : a \in (0 - EpsUnits)..((MaxNano + 1) * EpsUnits),
                          b \in (0 - EpsUnits)..((MaxNano + 1) * EpsUnits)}

\* Twice the signed area of the triangle u, v, w.
Cross(u, v, w) == (v.x - u.x) * (w.y - u.y) - (v.y - u.y) * (w.x - u.x)

NanoTriangles ==
    {<<u, v, w>> : u \in NanoVertices, v \in NanoVertices, w \in NanoVertices}

Centroid(pl) ==
    [x |-> (pl[1].x + pl[2].x + pl[3].x) \div 3, y |-> (pl[1].y + pl[2].y + pl[3].y) \div 3]

OutsideBox(p, pl) ==
    \/ \A i \in 1..Len(pl) : p.x < pl[i].x
    \/ \A i \in 1..Len(pl) : p.x > pl[i].x
    \/ \A i \in 1..Len(pl) : p.y < pl[i].y
    \/ \A i \in 1..Len(pl) : p.y > pl[i].y

CallPointInPolygon(p, pl) ==
    /\ call = NoCall
    /\ call' = [op |-> "pointInPolygon", p |-> p, poly |-> pl]
    /\ ret' = [inside |-> pointInPolygonNano(p, pl)]
    /\ UNCHANGED <<ui, nEvents>>

\* pointInPolygon asked about the centroid of a triangle of non-zero area, or
\* about a point outside its bounding box.
NextPoly ==
    /\ call = NoCall
    /\ \E pl \in NanoTriangles :
          /\ Cross(pl[1], pl[2], pl[3]) # 0
          /\ \E p \in NanoPoints :
                /\ p = Centroid(pl) \/ OutsideBox(p, pl)
                /\ CallPointInPolygon(p, pl)

SpecPoly == Init /\ [][NextPoly]_vars

\* ---- region membership

\* Three dimensions with ids 1, 2, 3 and the given preferences.
MemberDims(p) ==
    <<Dim(1, "X", "Lower", "Higher", p[1]), Dim(2, "Y", "Lower", "Higher", p[2]),
      Dim(3, "Z", "Lower", "Higher", p[3])>>

MemberPrefs == [1..3 -> {0, One}]

\* Coordinate mappings with any of the three entries missing.
MemberScores == UNION {[K -> {Dec(25), Dec(75)}] : K \in SUBSET (1..3)}

\* The default region, no region, a region of two vertices, and a triangle.
MemberPolys ==
    {makeDefaultPoly, <<>>, <<[x |-> 0, y |-> 0], [x |-> One, y |-> One]>>,
     <<[x |-> 0, y |-> 0], [x |-> One, y |-> 0], [x |-> One, y |-> One]>>}

\* statusById of one option, and of the option with the coordinates sc2 under
\* the dimensions ds2, for the same region.
CallMembership(ds, sc, ds2, sc2, pl) ==
    /\ call = NoCall
    /\ call' = [op |-> "membership", dims |-> ds, options |-> <<Opt(11, "A", "", sc)>>,
                dims2 |-> ds2, options2 |-> <<Opt(11, "A", "", sc2)>>, poly |-> pl]
    /\ ret' = [status |-> statusById(ds, <<Opt(11, "A", "", sc)>>, pl),
               status2 |-> statusById(ds2, <<Opt(11, "A", "", sc2)>>, pl)]
    /\ UNCHANGED <<ui, nEvents>>

\* The two calls differ in the preferences and in the third coordinate only.
NextMember ==
    /\ call = NoCall
    /\ \E p \in MemberPrefs, p2 \in MemberPrefs, sc \in MemberScores, sc2 \in MemberScores,
          pl \in MemberPolys :
          /\ \A k \in 1..2 : (k \in DOMAIN sc) = (k \in DOMAIN sc2)
          /\ \A k \in (1..2) \cap DOMAIN sc : sc[k] = sc2[k]
          /\ CallMembership(MemberDims(p), sc, MemberDims(p2), sc2, pl)

SpecMember == Init /\ [][NextMember]_vars

\* ------------------------------------------------------------------ properties

IdsOf(xs) == {xs[i].id : i \in 1..Len(xs)}

Idle == dragModeRef = "none" /\ dragPolyIdx = NoIdx /\ dragOptionId = NoId

AnyMove == \E pos \in PointerPos : svgMouseMove(pos)

AnyPointerDown ==
    \/ \E id \in OptionIds : optionMouseDown(id)
    \/ \E i \in 1..Len(poly) : handleMouseDown(i)

InUnit(v) == 0 <= v /\ v <= One

\* C1 (as claimed): a pointer-down on an option whose trimmed name is empty
\* selects it and leaves the drag state alone, and no pointer-move changes
\* a coordinate of an option whose trimmed name is empty at the time of the move.
C1_UnnamedNeverDragged ==
    [][ /\ \A i \in 1..Len(options) :
              (optionMouseDown(options[i].id) /\ trim(options[i].name) = "")
                 => /\ selectedOptionId' = options[i].id
                    /\ UNCHANGED <<dragModeRef, dragOptionId, dragPolyIdx>>
        /\ AnyMove =>
              \A i \in 1..Len(options) :
                 trim(options[i].name) = "" => options'[i].scores = options[i].scores
      ]_vars

\* C2: pointer-up and pointer-leave return to idle, clearing the vertex index
\* and the option id, and keep the polygon and the options as the last move
\* left them; while idle a pointer-move changes neither the polygon nor the
\* options; and idle lasts until a pointer-down.
C2_ReleaseCommits ==
    [][ /\ (svgMouseUp \/ svgMouseLeave) => (Idle' /\ poly' = poly /\ options' = options)
        /\ (Idle /\ AnyMove) => (poly' = poly /\ options' = options)
        /\ (Idle /\ ~AnyPointerDown) => Idle'
      ]_vars

\* C2's case: a vertex drag was released, its last position kept.
C2_Witness ==
    /\ step = "visual"
    /\ Idle
    /\ poly # makeDefaultPoly
    /\ \E i \in 1..Len(poly) : poly[i] = [x |-> Dec(75), y |-> Dec(25)]

\* C3: removing the selected option selects the first remaining option, an
\* option of the new list and never the removed one, or selects none when the
\* list becomes empty; removing another option keeps the selection.
C3_RemoveReselects ==
    [][ \A id \in OptionIds :
           removeOption(id) =>
              IF selectedOptionId = id
              THEN IF options' # <<>>
                   THEN /\ selectedOptionId' = options'[1].id
                        /\ selectedOptionId' \in IdsOf(options')
                        /\ selectedOptionId' # id
                   ELSE selectedOptionId' = NoId
              ELSE selectedOptionId' = selectedOptionId
      ]_vars

\* C3's case: the selected first option was removed right after the intake,
\* and the selection went to the next one.
C3_Witness ==
    /\ nEvents = 2
    /\ Len(options) = 2
    /\ DEFAULT_OPTIONS[1].id \notin OptionIds
    /\ selectedOptionId = options[1].id

\* C4: a pointer-move while an option is dragged writes the normalized pointer
\* position into that option's coordinates on the first and second dimension,
\* and changes nothing else: not its other coordinates, its name or notes, nor
\* any other option, the polygon, the dimensions or the selection.
C4_DragWritesTwoCoordinates ==
    [][ \A pos \in PointerPos :
           (svgMouseMove(pos) /\ dragModeRef = "option" /\ dragOptionId # NoId) =>
              /\ poly' = poly /\ dims' = dims /\ selectedOptionId' = selectedOptionId
              /\ Len(options') = Len(options)
              /\ \A i \in 1..Len(options) :
                    IF options[i].id # dragOptionId
                    THEN options'[i] = options[i]
                    ELSE /\ options'[i].id = options[i].id
                         /\ options'[i].name = options[i].name
                         /\ options'[i].notes = options[i].notes
                         /\ DOMAIN options'[i].scores = DOMAIN options[i].scores
                         /\ options'[i].scores[dims[1].id] = fromSvg(pos).x
                         /\ options'[i].scores[dims[2].id] = fromSvg(pos).y
                         /\ \A k \in DOMAIN options[i].scores \ {dims[1].id, dims[2].id} :
                               options'[i].scores[k] = options[i].scores[k]
      ]_vars

\* C4's case: a dragged option lies where the pointer was, its third
\* coordinate still the initial one.
C4_Witness ==
    /\ dragModeRef = "option"
    /\ Len(dims) > 2
    /\ \E i \in 1..Len(options) :
          /\ options[i].id = dragOptionId
          /\ options[i].scores[dims[1].id] = Dec(75)
          /\ options[i].scores[dims[2].id] = Dec(25)
          /\ options[i].scores[dims[3].id] = Half

\* The coordinates C7 gives a created option: 0.1 or 0.9 on the first two
\* dimensions, away from the preference, and 0.5 elsewhere.
PlacedAway(o, ds) ==
    /\ DOMAIN o.scores = IdsOf(ds)
    /\ \A i \in 1..Len(ds) :
          o.scores[ds[i].id] =
             IF i <= 2 THEN (IF ds[i].preference >= Dec(50) THEN Dec(10) ELSE Dec(90))
             ELSE Dec(50)

\* C7: every option an intake creates is placed away from the preferences of
\* the dimensions the intake sets; addOption appends exactly one unnamed
\* option, placed away from the current preferences, keeps the others and
\* selects the new one.
C7_CreatedAwayFromPreference ==
    [][ /\ startFromIntake =>
              \A i \in 1..Len(options') : PlacedAway(options'[i], dims')
        /\ addOption =>
              /\ Len(options') = Len(options) + 1
              /\ SubSeq(options', 1, Len(options)) = options
              /\ options'[Len(options')].name = ""
              /\ options'[Len(options')].id \notin OptionIds
              /\ PlacedAway(options'[Len(options')], dims)
              /\ selectedOptionId' = options'[Len(options')].id
      ]_vars

\* C7's case: an added option, placed at 0.9 because the first preference is low.
C7_Witness ==
    /\ Len(options) = 4
    /\ dims[1].preference < Half
    /\ options[4].name = ""
    /\ options[4].scores[dims[1].id] = Dec(90)
    /\ options[4].scores[dims[2].id] = Dec(10)
    /\ selectedOptionId = options[4].id

\* C8: after an intake the dimensions are the four built-in ones, with their
\* built-in preferences, when the text has no candidate; otherwise there is
\* one dimension per candidate for the first 8 candidates, in order, each with
\* preference 0.5, a single candidate being padded with "Dimension 2".
C8_IntakeDimensions ==
    [][ startFromIntake =>
           LET c == splitCandidates(considerations)
           IN  IF Len(c) = 0
               THEN /\ [i \in 1..Len(dims') |-> <<dims'[i].name, dims'[i].preference>>]
                         = << <<"Work-life", Dec(65)>>, <<"Money", Dec(70)>>,
                              <<"Growth", Dec(60)>>, <<"Meaning", Dec(70)>> >>
               ELSE /\ Len(dims') >= 2 /\ Len(dims') <= 8
                    /\ Len(dims') = (IF Len(c) = 1 THEN 2 ELSE IF Len(c) > 8 THEN 8 ELSE Len(c))
                    /\ \A i \in 1..Len(dims') : dims'[i].preference = Dec(50)
                    /\ \A i \in 1..Len(dims') :
                          i <= Len(c) =>
                             /\ dims'[i].name = inferAxis(c[i]).name
                             /\ dims'[i].leftLabel = inferAxis(c[i]).left
                             /\ dims'[i].rightLabel = inferAxis(c[i]).right
                    /\ Len(c) = 1 =>
                          /\ dims'[2].name = "Dimension 2"
                          /\ dims'[2].leftLabel = "Lower"
                          /\ dims'[2].rightLabel = "Higher"
      ]_vars

\* C8's case: an intake of nine candidates left eight dimensions.
C8_Witness ==
    /\ step = "visual"
    /\ Len(splitCandidates(considerations)) = 9
    /\ Len(dims) = 8
    /\ dims[8].name = "h"

\* C10: every preference, every option coordinate and both components of
\* every polygon vertex lie in [0, 1].
C10_UnitRange ==
    /\ \A i \in 1..Len(dims) : InUnit(dims[i].preference)
    /\ \A i \in 1..Len(options) :
          \A k \in DOMAIN options[i].scores : InUnit(options[i].scores[k])
    /\ \A i \in 1..Len(poly) : InUnit(poly[i].x) /\ InUnit(poly[i].y)

\* C10's case: a vertex dragged to a pointer position left of and below the
\* canvas, and another dragged into the top right padding.
C10_Witness ==
    /\ \E i \in 1..Len(poly) : poly[i] = [x |-> 0, y |-> 0]
    /\ \E i \in 1..Len(poly) : poly[i] = [x |-> One, y |-> One]

\* ---- scoring (SpecScore)

\* The score is (1 - dist) times 1 inside the region and times 0.75 outside.
ScoreFormula(st) == st.score = [mult |-> IF st.inside THEN One ELSE Dec(75), dist |-> st.dist]

\* C5 (as claimed): the score is (1 - distance) times 1 inside and times 0.75
\* outside, and an option outside the region scores strictly less than the same
\* option, at the same distance, with the region lifted (every option inside).
C5_InsideStrictlyGreater ==
    call.op = "statusById" =>
       \A id \in DOMAIN ret.status :
          /\ ScoreFormula(ret.status[id]) /\ ScoreFormula(ret.open[id])
          /\ ret.open[id].inside /\ ret.open[id].dist = ret.status[id].dist
          /\ ~ret.status[id].inside => CmpScore(ret.open[id].score, ret.status[id].score) = 1

\* C5 (amended): as claimed while the distance is below 1; at distance 1 both
\* scores are 0, and equal.
C5_InsideGreaterBelowOne ==
    call.op = "statusById" =>
       \A id \in DOMAIN ret.status :
          /\ ScoreFormula(ret.status[id]) /\ ScoreFormula(ret.open[id])
          /\ ret.open[id].inside /\ ret.open[id].dist = ret.status[id].dist
          /\ RootBelowOne(ret.status[id].dist) \/ RootIsOne(ret.status[id].dist)
          /\ (~ret.status[id].inside /\ RootBelowOne(ret.status[id].dist))
                => CmpScore(ret.open[id].score, ret.status[id].score) = 1
          /\ (~ret.status[id].inside /\ RootIsOne(ret.status[id].dist))
                => CmpScore(ret.open[id].score, ret.status[id].score) = 0

\* C5's cases: an option outside the region at a distance strictly between 0
\* and 1, and another at distance 1.
C5_Witness ==
    /\ call.op = "statusById"
    /\ \E id \in DOMAIN ret.status :
          /\ ~ret.status[id].inside
          /\ ret.status[id].dist.rad > 0
          /\ RootBelowOne(ret.status[id].dist)
    /\ \E id \in DOMAIN ret.status :
          ~ret.status[id].inside /\ RootIsOne(ret.status[id].dist)

\* The place of a returned entry in the option list of the call.
PlaceOf(entry) == CHOOSE i \in 1..Len(call.options) : call.options[i].id = entry.o.id

\* C6: top3 returns min(3, number of options) distinct options of the list
\* with their status, by descending score, none scoring less than an option
\* left out, and options of equal score in the order of the list.
C6_TopSortedStable ==
    call.op = "statusById" =>
       LET top == ret.top3
           os  == call.options
       IN  /\ Len(top) = (IF Len(os) < 3 THEN Len(os) ELSE 3)
           /\ \A k \in 1..Len(top) :
                 /\ \E i \in 1..Len(os) : top[k].o = os[i]
                 /\ top[k].s = ret.status[top[k].o.id]
           /\ \A k, l \in 1..Len(top) :
                 k < l =>
                    /\ top[k].o.id # top[l].o.id
                    /\ CmpScore(top[k].s.score, top[l].s.score) >= 0
                    /\ CmpScore(top[k].s.score, top[l].s.score) = 0
                          => PlaceOf(top[k]) < PlaceOf(top[l])
           /\ \A k \in 1..Len(top), i \in 1..Len(os) :
                 (\A l \in 1..Len(top) : top[l].o.id # os[i].id)
                    => CmpScore(top[k].s.score, ret.status[os[i].id].score) >= 0

\* C6's case: four options, two of the three returned with equal score, the
\* third with a lower one, and the option left out not first in the list.
C6_Witness ==
    /\ call.op = "statusById"
    /\ Len(call.options) = 4
    /\ Len(ret.top3) = 3
    /\ CmpScore(ret.top3[1].s.score, ret.top3[2].s.score) = 0
    /\ CmpScore(ret.top3[2].s.score, ret.top3[3].s.score) = 1
    /\ ret.top3[1].o.id # call.options[1].id
    /\ ret.top3[3].o.id = call.options[1].id

\* ---- canvas mapping (SpecCanvas)

\* Is the canvas point within the padded drawing area?
InDrawingArea(q) ==
    /\ 26 * One <= q.x /\ q.x <= (420 - 26) * One
    /\ 26 * One <= q.y /\ q.y <= (420 - 26) * One

\* C9: toSvg maps x to pad + x * inner and y to pad + (1 - y) * inner, fromSvg
\* undoes it on the unit square, and toSvg undoes fromSvg on the drawing area.
C9_CanvasRoundTrip ==
    /\ call.op = "toSvg" =>
          /\ ret.svg.x = 26 * One + call.p.x * 368
          /\ ret.svg.y = 26 * One + (One - call.p.y) * 368
          /\ ret.back = call.p
    /\ (call.op = "fromSvg" /\ InDrawingArea(call.p)) => ret.back = call.p

\* C9's cases: a point off the diagonal mapped to the canvas and back, or a
\* canvas point off the diagonal mapped to the unit square and back.
C9_Witness ==
    \/ /\ call.op = "toSvg"
       /\ call.p = [x |-> Dec(10), y |-> Dec(90)]
       /\ ret.svg = [x |-> 26 * One + 2 * 368, y |-> 26 * One + 2 * 368]
       /\ ret.back = call.p
    \/ /\ call.op = "fromSvg"
       /\ call.p = [x |-> 210 * One, y |-> 302 * One]
       /\ ret.unit = [x |-> Dec(50), y |-> Dec(25)]
       /\ ret.back = call.p

\* ---- later invariants of the component (Spec)

\* C11: the ids keyed in each option's coordinate mapping are exactly the ids
\* of the current dimensions: none missing, none beyond them.
C11_ScoreKeysAreDimIds ==
    \A i \in 1..Len(options) : DOMAIN options[i].scores = IdsOf(dims)

\* C11's case: after an intake that built its own two dimensions, an added
\* option whose second coordinate was then set with its slider.
C11_Witness ==
    /\ step = "visual"
    /\ Len(dims) = 2
    /\ IdsOf(dims) \cap IdsOf(DEFAULT_DIMS) = {}
    /\ Len(options) = 4
    /\ options[4].scores[dims[2].id] = One

\* ---- inferAxis (SpecAxis)

\* The keyword table of the rules, in order.
KeywordGroups ==
    << [words |-> {"money", "salary", "pay"}, axis |-> Axis("Money", "Lower", "Higher")],
       [words |-> {"time", "balance", "burnout", "life"},
        axis |-> Axis("Work-life", "All work", "All life")],
       [words |-> {"growth", "learning", "skills"}, axis |-> Axis("Growth", "Stable", "Expansive")],
       [words |-> {"meaning", "purpose", "impact"},
        axis |-> Axis("Meaning", "Instrumental", "Purposeful")],
       [words |-> {"risk", "security", "stability"}, axis |-> Axis("Risk", "Safer", "Riskier")] >>

\* The groups with a keyword contained in the lower-cased phrase.
GroupsIn(lower) ==
    {g \in 1..Len(KeywordGroups) : \E w \in KeywordGroups[g].words : includes(lower, w)}

\* The axis of the first group of GroupsIn(lower), or the fallback named s.
KeywordRule(s, lower) ==
    IF GroupsIn(lower) # {}
    THEN KeywordGroups[CHOOSE g \in GroupsIn(lower) : \A h \in GroupsIn(lower) : g <= h].axis
    ELSE Axis(IF s = "" THEN "Dimension" ELSE s, "Lower", "Higher")

\* The axis with the trimmed text before and after position at of s as poles,
\* the separator being width characters wide.
PolesAround(s, at, width) ==
    LET a == trim(slice(s, 0, at))
        b == trim(sliceFrom(s, at + width))
    IN  Axis(a \o " " \o Arrow \o " " \o b, a, b)

Breaks == {"\n", Bullet, MidDot, ";", ","}

\* The phrases of a text, read character by character: a carriage return is
\* skipped, a break ends the phrase cur, and a phrase counts when its trimmed
\* text is not empty.
RECURSIVE ScanTokens(_, _)
ScanTokens(text, cur) ==
    LET done == IF trim(cur) # "" THEN <<trim(cur)>> ELSE <<>>
    IN  IF text = "" THEN done
        ELSE IF Char(text, 1) = "\r" THEN ScanTokens(sliceFrom(text, 1), cur)
        ELSE IF Char(text, 1) \in Breaks THEN done \o ScanTokens(sliceFrom(text, 1), "")
        ELSE ScanTokens(sliceFrom(text, 1), cur \o Char(text, 1))

\* The place of the first phrase of toks equal to p ignoring case, 0 if none.
FirstSeen(toks, p) ==
    LET at == {i \in 1..Len(toks) : toLowerCase(toks[i]) = toLowerCase(p)}
    IN  IF at = {} THEN 0 ELSE CHOOSE i \in at : \A j \in at : i <= j

\* C13: splitCandidates returns non-empty trimmed phrases free of breaks and
\* carriage returns, no two equal ignoring case, each the first-seen phrase of
\* its spelling-ignoring-case, in first-seen order, none left out; and nothing
\* for an empty or whitespace-only text.
C13_SplitCandidates ==
    call.op = "splitCandidates" =>
       LET toks == ScanTokens(call.text, "")
           out  == ret.out
       IN  /\ \A k \in 1..Len(out) :
                 /\ out[k] # "" /\ trim(out[k]) = out[k]
                 /\ \A c \in Breaks \cup {"\r"} : ~includes(out[k], c)
                 /\ FirstSeen(toks, out[k]) # 0
                 /\ out[k] = toks[FirstSeen(toks, out[k])]
           /\ \A k, l \in 1..Len(out) :
                 k < l => /\ toLowerCase(out[k]) # toLowerCase(out[l])
                          /\ FirstSeen(toks, out[k]) < FirstSeen(toks, out[l])
           /\ \A i \in 1..Len(toks) : FirstSeen(out, toks[i]) # 0
           /\ trim(call.text) = "" => out = <<>>

\* C13's case: a comma, a bullet and a repeated word in the other case.
C13_Witness ==
    /\ call.op = "splitCandidates"
    /\ call.text = "a,A " \o Bullet \o "b"
    /\ ret.out = <<"a", "b">>

\* ---- pointInPolygon (SpecPoly)

C15_DragMarkerOneOfThree ==
    \/ Idle
    \/ dragModeRef = "poly" /\ dragPolyIdx # NoIdx /\ dragOptionId = NoId
    \/ dragModeRef = "option" /\ dragOptionId # NoId /\ dragPolyIdx = NoIdx

\* ---- the passable region (Spec)

\* The 5-point default shape.
DefaultShape ==
    << [x |-> Dec(25), y |-> Dec(15)], [x |-> Dec(85), y |-> Dec(25)],
       [x |-> Dec(75), y |-> Dec(80)], [x |-> Dec(35), y |-> Dec(90)],
       [x |-> Dec(20), y |-> Dec(55)] >>

\* C16: the region has 5 vertices before and after every step; a pointer-move
\* during the drag of vertex i puts the normalized pointer position at i, keeps
\* every other vertex in its place and changes no option or dimension; an
\* intake sets the region to the default shape.
C16_PolygonKeepsVertices ==
    [][ /\ Len(poly) = 5 /\ Len(poly') = 5
        /\ \A pos \in PointerPos :
              (svgMouseMove(pos) /\ dragModeRef = "poly" /\ dragPolyIdx # NoIdx) =>
                 /\ poly'[dragPolyIdx] = fromSvg(pos)
                 /\ \A j \in 1..Len(poly) : j # dragPolyIdx => poly'[j] = poly[j]
                 /\ options' = options /\ dims' = dims
        /\ startFromIntake => poly' = DefaultShape
      ]_vars

\* C16's case: the third vertex is being dragged and lies at the centre, the
\* other four where the default shape has them.
C16_Witness ==
    /\ dragModeRef = "poly" /\ dragPolyIdx = 3
    /\ poly[3] = [x |-> Half, y |-> Half]
    /\ \A j \in {1, 2, 4, 5} : poly[j] = DefaultShape[j]

\* ---- region membership (SpecMember)

\* C17: an option's membership is pointInPolygon of its coordinates on the
\* first and second dimension, a missing one read as 0.5, and is true when the
\* region has fewer than 3 vertices; it is the same after any change of the
\* preferences and of the coordinate on the third dimension.
C17_MembershipFromFirstTwo ==
    call.op = "membership" =>
       \A id \in DOMAIN ret.status :
          LET sc == call.options[1].scores
              x  == IF 1 \in DOMAIN sc THEN sc[1] ELSE Half
              y  == IF 2 \in DOMAIN sc THEN sc[2] ELSE Half
          IN  /\ ret.status[id].inside = ret.status2[id].inside
              /\ Len(call.poly) >= 3 =>
                    ret.status[id].inside = pointInPolygon([x |-> x, y |-> y], call.poly)
              /\ Len(call.poly) < 3 => ret.status[id].inside

\* C17's case: an option without a first coordinate, outside a triangular
\* region both times, whose distance and score differ between the two calls.
C17_Witness ==
    /\ call.op = "membership"
    /\ Len(call.poly) = 3
    /\ 1 \notin DOMAIN call.options[1].scores
    /\ \A id \in DOMAIN ret.status :
          /\ ~ret.status[id].inside /\ ~ret.status2[id].inside
          /\ ret.status[id].dist # ret.status2[id].dist
          /\ CmpScore(ret.status[id].score, ret.status2[id].score) # 0

\* ---- the selection (Spec)

\* The selected id is the id of an option of os, or none when os is empty.
SelectionValid(sel, os) == IF os = <<>> THEN sel = NoId ELSE sel \in IdsOf(os)

\* C18: before and after every step the selected id is the id of an option of
\* the list when the list is not empty, and none exactly when it is empty;
\* and an intake leaves three options, the first of them selected.
C18_SelectionValid ==
    [][ /\ SelectionValid(selectedOptionId, options)
        /\ SelectionValid(selectedOptionId', options')
        /\ startFromIntake =>
              /\ Len(options') = 3
              /\ selectedOptionId' = options'[1].id
      ]_vars

\* C18's case: every option was removed, and an option added to the empty
\* list is the selected one.
C18_Witness ==
    /\ nEvents = 5
    /\ Len(options) = 1
    /\ IdsOf(options) \cap IdsOf(DEFAULT_OPTIONS) = {}
    /\ selectedOptionId = options[1].id

\* ---- the drag target (Spec)

\* C19 (as claimed): during an option drag the dragged id is the id of an
\* option of the list, and during a vertex drag the dragged index is an index
\* of the polygon.
C19_DragTargetExists ==
    /\ (dragModeRef = "option" /\ dragOptionId # NoId) => dragOptionId \in OptionIds
    /\ (dragModeRef = "poly" /\ dragPolyIdx # NoIdx) => dragPolyIdx \in 1..Len(poly)

=============================================================================
